---- MODULE Spec2Model ----
(***************************************************************************)
(* A model of the ESG data-capture workflow:                               *)
(*   - agents/esg_crew.py : ESGAnalysisCrew (three tasks run by a          *)
(*     sequential crew, run() with its fallback structure);                *)
(*   - main.py            : main(), which calls run() and hands the result *)
(*     to the spreadsheet generator;                                       *)
(*   - utils/document_loader.py : DocumentIndexer (load-or-build of the    *)
(*     persisted vector store, search);                                    *)
(*   - agents/excel_generator.py : ESGFormGenerator (the sheets of the     *)
(*     workbook and the Data Entry sheet).                                 *)
(* Four specifications share the module: Spec (the workflow of main.py),   *)
(* SpecIndex (callers constructing a DocumentIndexer on one persist        *)
(* directory), SpecProcess (one process using a DocumentIndexer) and       *)
(* SpecRender (one call of create_comprehensive_form).  Each leaves the    *)
(* variables of the other parts at their initial value.                    *)
(***************************************************************************)
EXTENDS Integers, Sequences, FiniteSets, TLC

VARIABLES
    \* ---- workflow (main.py, agents/esg_crew.py) ----
    pc,             \* position of main()/run()
    investor_name,  \* ESGAnalysisCrew.investor_name
    properties,     \* the list of property names main() passes to run()
    taskState,      \* state of each Task of the crew
    regOut,         \* output of regulatory_task: candidate metrics
    fwOut,          \* output of framework_task: candidate metrics
    crewResult,     \* what crew.kickoff() returned
    error,          \* kind of the exception in flight, "none" if none
    returned,       \* what run() returned
    console,        \* lines printed by run() and main()
    rendered,       \* metrics_data handed to create_comprehensive_form
    \* ---- indexer (utils/document_loader.py) ----
    corpus,         \* PDF files under ./data/regulations and ./data/frameworks
    disk,           \* the persist directory
    ipc,            \* position of each caller constructing a DocumentIndexer
    texts,          \* each caller's split documents
    vectorstore,    \* each caller's self.vectorstore
    embedCalls,     \* number of embedding passes each caller made
    docReads,       \* number of corpus reads each caller made
    startedAfter,   \* callers whose construction had finished when this one began
    sawBuilding,    \* whether a build was in progress when this caller loaded
    diskReads,      \* times each caller read the persist directory
    diskWrites,     \* times each caller wrote the persist directory
    raised,         \* the exception that left each caller's last call, "none" if none
    indexCalls,     \* explicit index_documents() calls each caller made
    lastSearch,     \* the last search() call and what it returned
    \* agents/excel_generator.py: one call of create_comprehensive_form
    rpc,            \* position in create_comprehensive_form
    metrics_data,   \* the taxonomy passed to it
    propertyInfos,  \* the properties passed to it
    worksheets,     \* names of the worksheets of the workbook, in order of addition
    dataEntry,      \* what was written to the Data Entry sheet
    renderError     \* the exception that left create_comprehensive_form

crewVars  == <<pc, investor_name, properties, taskState, regOut, fwOut,
               crewResult, error, returned, console, rendered>>
indexVars == <<corpus, disk, ipc, texts, vectorstore, embedCalls, docReads,
               startedAfter, sawBuilding, diskReads, diskWrites, raised,
               indexCalls, lastSearch>>
renderVars == <<rpc, metrics_data, propertyInfos, worksheets, dataEntry, renderError>>
vars      == <<crewVars, indexVars, renderVars>>

-----------------------------------------------------------------------------
(* Bounds of the model.                                                    *)
MaxCandidates == 1   \* candidates an extraction task emits
MaxMetrics    == 2   \* metrics in one subcategory of a crew result
MaxK          == 3   \* largest k passed to search
MaxReindex    == 1   \* explicit index_documents() calls on one indexer

-----------------------------------------------------------------------------
(* Python values.  A dict is a sequence of [k, v] entries with distinct    *)
(* keys, in insertion order (iteration order of a Python dict).            *)

NoValue      == [type |-> "none"]
DictValue(d) == [type |-> "dict", value |-> d]
StrValue(s)  == [type |-> "str", value |-> s]
ListValue(s) == [type |-> "list", value |-> s]

\* isinstance(result, dict)
IsDict(x) == x.type = "dict"

Keys(d)   == [i \in 1..Len(d) |-> d[i].k]
KeySet(d) == {d[i].k : i \in 1..Len(d)}

\* metric.get(field, default)
Get(m, f, default) == IF f \in DOMAIN m THEN m[f] ELSE default

Categories == {"Environmental", "Social", "Governance"}

\* all sequences of length <= n over S
SeqsUpTo(S, n) == UNION {[1..m -> S] : m \in 0..n}

Range(s) == {s[i] : i \in DOMAIN s}

\* how many times x occurs in s
Count(s, x) == Cardinality({i \in DOMAIN s : s[i] = x})

\* sequences without repetition
Injective(s) == \A i, j \in 1..Len(s) : i # j => s[i] # s[j]

-----------------------------------------------------------------------------
(* agents/esg_crew.py                                                      *)

\* _create_basic_metrics_structure
BasicMetricsStructure ==
    << [k |-> "Environmental",
        v |-> << [k |-> "Energy",
                  v |-> << [name |-> "Total Energy Consumption", unit |-> "kWh"] >>] >>],
       [k |-> "Social",
        v |-> << [k |-> "Employees",
                  v |-> << [name |-> "Total Employees", unit |-> "count"] >>] >>],
       [k |-> "Governance",
        v |-> << [k |-> "Board",
                  v |-> << [name |-> "Board Diversity", unit |-> "%"] >>] >>] >>

\* The tasks of the crew, in a wrong order: consolidation before framework.
CrewTasksConsolidationSecond == <<"regulatory", "consolidation", "framework">>

\* _create_crew: tasks=[regulatory_task, framework_task, consolidation_task]
CrewTasks == <<"regulatory", "framework", "consolidation">>

TaskNames == {"regulatory", "framework", "consolidation"}

\* Process.sequential: the crew runs its tasks one at a time in list order;
\* the next task is the first one of the list that has not run.
NextTaskIndex ==
    IF \E i \in 1..Len(CrewTasks) : taskState[CrewTasks[i]] # "done"
    THEN CHOOSE i \in 1..Len(CrewTasks) :
            /\ taskState[CrewTasks[i]] # "done"
            /\ \A j \in 1..(i - 1) : taskState[CrewTasks[j]] = "done"
    ELSE 0

-----------------------------------------------------------------------------
(* What the language model may emit.  The extraction tasks emit candidate  *)
(* metrics; the consolidation task emits the crew's final output, which    *)
(* CrewAI hands back either parsed (a dict) or raw (not a dict).           *)

MetricNames == {"Scope 1 Emissions", "scope 1 emissions"}
Units       == {"", "tCO2e", "kg"}

CandidateMetrics(source) ==
    {[name |-> n, unit |-> u, source |-> source] : n \in MetricNames, u \in Units}

CandidateLists(source) == SeqsUpTo(CandidateMetrics(source), MaxCandidates)

Metrics     == {[name |-> n, unit |-> u] : n \in MetricNames, u \in Units}
MetricLists == SeqsUpTo(Metrics, MaxMetrics)

CategoryOrders == {o \in SeqsUpTo(Categories, 3) : Injective(o)}

\* the value the fallback gives a category
BasicContent(c) ==
    LET i == CHOOSE j \in 1..Len(BasicMetricsStructure) : BasicMetricsStructure[j].k = c
    IN  BasicMetricsStructure[i].v

\* dicts with the categories in any order, any of them possibly absent
ReorderedTaxonomies ==
    {[i \in 1..Len(o) |-> [k |-> o[i], v |-> BasicContent(o[i])]] : o \in CategoryOrders}

\* dicts in canonical order whose Environmental/Emissions list is arbitrary
EmissionsTaxonomies ==
    {<< [k |-> "Environmental", v |-> << [k |-> "Emissions", v |-> ml] >>],
        [k |-> "Social", v |-> BasicContent("Social")],
        [k |-> "Governance", v |-> BasicContent("Governance")] >> : ml \in MetricLists}

CrewResults ==
    {DictValue(t) : t \in ReorderedTaxonomies \cup EmissionsTaxonomies}
    \cup {StrValue("not json"), ListValue(<<>>)}

\* exceptions a task can raise
ExtractionErrors    == {"transport", "no_documents"}
ConsolidationErrors == {"transport", "consolidation_error"}

-----------------------------------------------------------------------------
(* utils/document_loader.py: values                                        *)

ChunkSize    == 1000   \* RecursiveCharacterTextSplitter(chunk_size=1000)
ChunkOverlap == 200    \* RecursiveCharacterTextSplitter(chunk_overlap=200)

\* The processes that construct a DocumentIndexer on the persist directory.
Callers == {"c1", "c2"}

RegulationFiles == {"r1.pdf", "bad.pdf"}
FrameworkFiles  == {"f1.pdf"}

\* whether PyPDFLoader can read the file
Parseable(file) == file # "bad.pdf"

AllFiles(cp) == cp.regulations \cup cp.frameworks

\* what the two directories can hold
Corpora ==
    {[regulations |-> r, frameworks |-> f] :
        r \in SUBSET RegulationFiles, f \in SUBSET FrameworkFiles}

\* number of characters of a document's text
TextLength(file) ==
    CASE file = "r1.pdf" -> 1800
      [] file = "f1.pdf" -> 600

FileOrder == <<"bad.pdf", "f1.pdf", "r1.pdf">>

\* DirectoryLoader(...).load(): the files of a directory, in name order
LoadDirectory(files) == SelectSeq(FileOrder, LAMBDA f : f \in files)

\* chunks of at most ChunkSize characters, each starting ChunkSize -
\* ChunkOverlap characters after the one before
NumChunks(len) ==
    IF len <= ChunkSize
    THEN 1
    ELSE 1 + ((len - ChunkSize) + (ChunkSize - ChunkOverlap) - 1) \div (ChunkSize - ChunkOverlap)

SplitDocument(file) ==
    [i \in 1..NumChunks(TextLength(file)) |->
        [source |-> file, start |-> (i - 1) * (ChunkSize - ChunkOverlap)]]

RECURSIVE SplitDocuments(_)
\* text_splitter.split_documents(all_docs)
SplitDocuments(docs) ==
    IF docs = <<>> THEN <<>>
    ELSE SplitDocument(Head(docs)) \o SplitDocuments(Tail(docs))

\* the chunks of the documents of the corpus that can be read
SourceChunks(cp) ==
    SplitDocuments(SelectSeq(LoadDirectory(cp.regulations) \o LoadDirectory(cp.frameworks),
                             Parseable))

\* reg_loader.load() + framework_loader.load(), split
CorpusTexts(cp) ==
    SplitDocuments(LoadDirectory(cp.regulations) \o LoadDirectory(cp.frameworks))

\* the embedding capability (OpenAIEmbeddings): a text is mapped to a point
Queries == {"energy", "board"}

\* embed_query
QueryEmbedding(q) ==
    CASE q = "energy" -> 1
      [] q = "board"  -> 3

\* embed_documents
ChunkEmbedding(chunk) ==
    CASE chunk = [source |-> "r1.pdf", start |-> 0]   -> 1
      [] chunk = [source |-> "r1.pdf", start |-> 800] -> 3
      [] OTHER -> 2

Distance(q, chunk) ==
    LET d == QueryEmbedding(q) - ChunkEmbedding(chunk) IN IF d < 0 THEN 0 - d ELSE d

\* chunk i of the store is a better match for q than chunk j (ties: store order)
Closer(store, q, i, j) ==
    \/ Distance(q, store[i]) < Distance(q, store[j])
    \/ Distance(q, store[i]) = Distance(q, store[j]) /\ i < j

Min(a, b) == IF a < b THEN a ELSE b

\* vectorstore.similarity_search(query, k=k): the k closest chunks, closest first
SimilaritySearch(store, q, k) ==
    [p \in 1..Min(k, Len(store)) |->
        store[CHOOSE i \in 1..Len(store) :
                Cardinality({j \in 1..Len(store) : Closer(store, q, j, i)}) = p - 1]]

\* search(): the page contents of the results (joined by blank lines)
Search(vs, q, k) == SimilaritySearch(vs.value, q, k)

StoreValue(chunks) == [type |-> "chroma", value |-> chunks]

\* the renderer before create_comprehensive_form is called
RenderIdle ==
    /\ rpc = "idle"
    /\ metrics_data = <<>>
    /\ propertyInfos = <<>>
    /\ worksheets = <<>>
    /\ dataEntry = NoValue
    /\ renderError = "none"

\* the indexer before any construction
IndexIdle ==
    /\ corpus = [regulations |-> {}, frameworks |-> {}]
    /\ disk = [exists |-> FALSE, chunks |-> <<>>]
    /\ ipc = [c \in Callers |-> "idle"]
    /\ texts = [c \in Callers |-> <<>>]
    /\ vectorstore = [c \in Callers |-> NoValue]
    /\ embedCalls = [c \in Callers |-> 0]
    /\ docReads = [c \in Callers |-> 0]
    /\ startedAfter = [c \in Callers |-> {}]
    /\ sawBuilding = [c \in Callers |-> FALSE]
    /\ diskReads = [c \in Callers |-> 0]
    /\ diskWrites = [c \in Callers |-> 0]
    /\ raised = [c \in Callers |-> "none"]
    /\ indexCalls = [c \in Callers |-> 0]
    /\ lastSearch = NoValue

-----------------------------------------------------------------------------
(* The workflow: main() constructs the crew, calls run(), renders.         *)

InvestorNames == {"BlackRock", "Test"}
PropertyLists == {<<>>, <<"Property A", "Property B">>}

\* main.py 13-29: configuration and ESGAnalysisCrew(investor_name)
Init ==
    /\ pc = "constructed"
    /\ investor_name \in InvestorNames
    /\ properties \in PropertyLists
    /\ taskState = [t \in TaskNames |-> "pending"]
    /\ regOut = <<>>
    /\ fwOut = <<>>
    /\ crewResult = NoValue
    /\ error = "none"
    /\ returned = NoValue
    /\ console = <<>>
    /\ rendered = NoValue
    /\ IndexIdle
    /\ RenderIdle

\* run() calls self.crew.kickoff(inputs=...)
Kickoff ==
    /\ pc = "constructed"
    /\ pc' = "kickoff"
    /\ UNCHANGED <<investor_name, properties, taskState, regOut, fwOut, crewResult,
                   error, returned, console, rendered>>
    /\ UNCHANGED <<indexVars, renderVars>>

\* the sequential process starts the next task of the list
StartTask ==
    /\ pc = "kickoff"
    /\ NextTaskIndex # 0
    /\ taskState[CrewTasks[NextTaskIndex]] = "pending"
    /\ taskState' = [taskState EXCEPT ![CrewTasks[NextTaskIndex]] = "running"]
    /\ UNCHANGED <<pc, investor_name, properties, regOut, fwOut, crewResult,
                   error, returned, console, rendered>>
    /\ UNCHANGED <<indexVars, renderVars>>

\* regulatory_task completes with its list of metrics
CompleteRegulatory ==
    /\ pc = "kickoff"
    /\ taskState["regulatory"] = "running"
    /\ \E out \in CandidateLists("regulatory") : regOut' = out
    /\ taskState' = [taskState EXCEPT !["regulatory"] = "done"]
    /\ UNCHANGED <<pc, investor_name, properties, fwOut, crewResult,
                   error, returned, console, rendered>>
    /\ UNCHANGED <<indexVars, renderVars>>

\* framework_task completes with its list of metrics
CompleteFramework ==
    /\ pc = "kickoff"
    /\ taskState["framework"] = "running"
    /\ \E out \in CandidateLists("framework") : fwOut' = out
    /\ taskState' = [taskState EXCEPT !["framework"] = "done"]
    /\ UNCHANGED <<pc, investor_name, properties, regOut, crewResult,
                   error, returned, console, rendered>>
    /\ UNCHANGED <<indexVars, renderVars>>

\* consolidation_task completes; kickoff() returns the crew's final output
CompleteConsolidation ==
    /\ pc = "kickoff"
    /\ taskState["consolidation"] = "running"
    /\ \E res \in CrewResults : crewResult' = res
    /\ taskState' = [taskState EXCEPT !["consolidation"] = "done"]
    /\ pc' = "kickoff_returned"
    /\ UNCHANGED <<investor_name, properties, regOut, fwOut,
                   error, returned, console, rendered>>
    /\ UNCHANGED <<indexVars, renderVars>>

\* errors the running task t can raise
TaskErrors(t) == IF t = "consolidation" THEN ConsolidationErrors ELSE ExtractionErrors

\* a task raises: kickoff() raises, and run(), which has no handler around
\* the call, raises with it
KickoffRaises ==
    /\ pc = "kickoff"
    /\ \E t \in TaskNames :
          /\ taskState[t] = "running"
          /\ \E e \in TaskErrors(t) : error' = e
          /\ taskState' = [taskState EXCEPT ![t] = "failed"]
    /\ pc' = "run_raised"
    /\ UNCHANGED <<investor_name, properties, regOut, fwOut, crewResult,
                   returned, console, rendered>>
    /\ UNCHANGED <<indexVars, renderVars>>

WarningLine == "Warning: Crew output was not a dictionary."

\* run() 118-124 without the isinstance test: the result is returned as it is
RunResultUnchecked(result) == [value |-> result, printed |-> <<>>]

\* run() 118-124 taking an empty dict for a failed result as well
RunResultRejectsEmpty(result) ==
    IF IsDict(result) /\ result.value # <<>>
    THEN [value |-> result, printed |-> <<>>]
    ELSE [value |-> DictValue(BasicMetricsStructure), printed |-> <<WarningLine>>]

\* run() 118-124: the result itself if it is a dict, else a warning and the
\* basic structure
RunResult(result) ==
    IF IsDict(result)
    THEN [value |-> result, printed |-> <<>>]
    ELSE [value |-> DictValue(BasicMetricsStructure), printed |-> <<WarningLine>>]

\* run() returns
RunReturn ==
    /\ pc = "kickoff_returned"
    /\ returned' = RunResult(crewResult).value
    /\ console' = console \o RunResult(crewResult).printed
    /\ pc' = "run_returned"
    /\ UNCHANGED <<investor_name, properties, taskState, regOut, fwOut, crewResult,
                   error, rendered>>
    /\ UNCHANGED <<indexVars, renderVars>>

\* main() 43-69: the result goes to create_comprehensive_form
MainGenerate ==
    /\ pc = "run_returned"
    /\ rendered' = returned
    /\ console' = console \o <<"Success">>
    /\ pc' = "main_success"
    /\ UNCHANGED <<investor_name, properties, taskState, regOut, fwOut, crewResult,
                   error, returned>>
    /\ UNCHANGED <<indexVars, renderVars>>

\* main() 46-60: create_comprehensive_form (or makedirs before it) raises
GenerateRaises ==
    /\ pc = "run_returned"
    /\ error' = "render_error"
    /\ pc' = "generate_raised"
    /\ UNCHANGED <<investor_name, properties, taskState, regOut, fwOut, crewResult,
                   returned, console, rendered>>
    /\ UNCHANGED <<indexVars, renderVars>>

\* main() 71-77 with a handler that reports the error and goes on
MainExceptSwallows ==
    /\ pc \in {"run_raised", "generate_raised"}
    /\ console' = console \o <<"Error during analysis", "Success">>
    /\ pc' = "main_success"
    /\ UNCHANGED <<investor_name, properties, taskState, regOut, fwOut, crewResult,
                   error, returned, rendered>>
    /\ UNCHANGED <<indexVars, renderVars>>

\* main() 71-77: report the error and raise it again
MainExcept ==
    /\ pc \in {"run_raised", "generate_raised"}
    /\ console' = console \o <<"Error during analysis">>
    /\ pc' = "main_raised"
    /\ UNCHANGED <<investor_name, properties, taskState, regOut, fwOut, crewResult,
                   error, returned, rendered>>
    /\ UNCHANGED <<indexVars, renderVars>>

Next ==
    \/ Kickoff
    \/ StartTask
    \/ CompleteRegulatory
    \/ CompleteFramework
    \/ CompleteConsolidation
    \/ KickoffRaises
    \/ RunReturn
    \/ MainGenerate
    \/ GenerateRaises
    \/ MainExcept

Spec == Init /\ [][Next]_vars

-----------------------------------------------------------------------------
(* utils/document_loader.py: callers constructing a DocumentIndexer on the *)
(* same persist directory.  The vector store keeps its collection in       *)
(* memory; persist() creates the directory and then writes the collection, *)
(* so the directory exists before its content is complete.                 *)

\* the workflow before main() has called run()
CrewIdle ==
    /\ pc = "constructed"
    /\ investor_name = "BlackRock"
    /\ properties = <<>>
    /\ taskState = [t \in TaskNames |-> "pending"]
    /\ regOut = <<>>
    /\ fwOut = <<>>
    /\ crewResult = NoValue
    /\ error = "none"
    /\ returned = NoValue
    /\ console = <<>>
    /\ rendered = NoValue

\* The persist directory is absent, or holds the index an earlier process
\* built from the corpus of that time.
InitIndex ==
    /\ corpus \in Corpora
    /\ disk \in {[exists |-> FALSE, chunks |-> <<>>]}
                \cup {[exists |-> TRUE, chunks |-> CorpusTexts(old)] :
                        old \in {cp \in Corpora : \A f \in AllFiles(cp) : Parseable(f)}}
    /\ ipc = [c \in Callers |-> "idle"]
    /\ texts = [c \in Callers |-> <<>>]
    /\ vectorstore = [c \in Callers |-> NoValue]
    /\ embedCalls = [c \in Callers |-> 0]
    /\ docReads = [c \in Callers |-> 0]
    /\ startedAfter = [c \in Callers |-> {}]
    /\ sawBuilding = [c \in Callers |-> FALSE]
    /\ diskReads = [c \in Callers |-> 0]
    /\ diskWrites = [c \in Callers |-> 0]
    /\ raised = [c \in Callers |-> "none"]
    /\ indexCalls = [c \in Callers |-> 0]
    /\ lastSearch = NoValue
    /\ CrewIdle
    /\ RenderIdle

\* some caller has created the persist directory and not yet written its
\* chunks to it
BuildInProgress ==
    \E d \in Callers : ipc[d] = "persisting" /\ disk.chunks # vectorstore[d].value

\* where an exception out of index_documents leaves the caller: without an
\* indexer if it was raised under the constructor, else with the indexer as
\* it was
AfterRaise(c) == IF indexCalls[c] = 0 THEN "failed" ELSE "done"

\* _initialize_vectorstore without the os.path.exists test: always index
InitializeVectorstoreAlwaysIndex(c) ==
    /\ ipc[c] = "idle"
    /\ startedAfter' = [startedAfter EXCEPT ![c] = {d \in Callers : ipc[d] = "done"}]
    /\ ipc' = [ipc EXCEPT ![c] = "indexing"]
    /\ UNCHANGED <<corpus, disk, texts, vectorstore, embedCalls, docReads, sawBuilding,
                   diskReads, diskWrites, raised, indexCalls, lastSearch>>
    /\ UNCHANGED <<crewVars, renderVars>>

\* __init__ and _initialize_vectorstore: load the persisted store if the
\* directory exists, else go on to index_documents
InitializeVectorstore(c) ==
    /\ ipc[c] = "idle"
    /\ startedAfter' = [startedAfter EXCEPT ![c] = {d \in Callers : ipc[d] = "done"}]
    /\ IF disk.exists
       THEN /\ vectorstore' = [vectorstore EXCEPT ![c] = StoreValue(disk.chunks)]
            /\ sawBuilding' = [sawBuilding EXCEPT ![c] = BuildInProgress]
            /\ diskReads' = [diskReads EXCEPT ![c] = @ + 1]
            /\ ipc' = [ipc EXCEPT ![c] = "done"]
       ELSE /\ ipc' = [ipc EXCEPT ![c] = "indexing"]
            /\ UNCHANGED <<vectorstore, sawBuilding, diskReads>>
    /\ UNCHANGED <<corpus, disk, texts, embedCalls, docReads,
                   diskWrites, raised, indexCalls, lastSearch>>
    /\ UNCHANGED <<crewVars, renderVars>>

\* a caller that holds an indexer calls its index_documents()
IndexDocuments(c) ==
    /\ ipc[c] = "done"
    /\ indexCalls[c] < MaxReindex
    /\ indexCalls' = [indexCalls EXCEPT ![c] = @ + 1]
    /\ raised' = [raised EXCEPT ![c] = "none"]
    /\ ipc' = [ipc EXCEPT ![c] = "indexing"]
    /\ UNCHANGED <<corpus, disk, texts, vectorstore, embedCalls, docReads, startedAfter,
                   sawBuilding, diskReads, diskWrites, lastSearch>>
    /\ UNCHANGED <<crewVars, renderVars>>

\* index_documents 28-51: load both directories and split the documents
LoadAndSplit(c) ==
    /\ ipc[c] = "indexing"
    /\ \A f \in AllFiles(corpus) : Parseable(f)
    /\ docReads' = [docReads EXCEPT ![c] = @ + 1]
    /\ texts' = [texts EXCEPT ![c] = CorpusTexts(corpus)]
    /\ ipc' = [ipc EXCEPT ![c] = "split"]
    /\ UNCHANGED <<corpus, disk, vectorstore, embedCalls, startedAfter, sawBuilding,
                   diskReads, diskWrites, raised, indexCalls, lastSearch>>
    /\ UNCHANGED <<crewVars, renderVars>>

\* index_documents 28-42: a file cannot be read; DirectoryLoader (which is
\* not told to pass over errors) raises and index_documents ends there
LoadRaises(c) ==
    /\ ipc[c] = "indexing"
    /\ \E f \in AllFiles(corpus) : ~Parseable(f)
    /\ docReads' = [docReads EXCEPT ![c] = @ + 1]
    /\ raised' = [raised EXCEPT ![c] = "PdfReadError"]
    /\ ipc' = [ipc EXCEPT ![c] = AfterRaise(c)]
    /\ UNCHANGED <<corpus, disk, texts, vectorstore, embedCalls, startedAfter,
                   sawBuilding, diskReads, diskWrites, indexCalls, lastSearch>>
    /\ UNCHANGED <<crewVars, renderVars>>

\* index_documents 53-58 adding every text twice
FromDocumentsTwice(c) ==
    /\ ipc[c] = "split"
    /\ embedCalls' = [embedCalls EXCEPT ![c] = @ + 1]
    /\ diskReads' = [diskReads EXCEPT ![c] = IF disk.exists THEN @ + 1 ELSE @]
    /\ vectorstore' = [vectorstore EXCEPT ![c] =
                          StoreValue(disk.chunks \o texts[c] \o texts[c])]
    /\ ipc' = [ipc EXCEPT ![c] = "built"]
    /\ UNCHANGED <<corpus, disk, texts, docReads, startedAfter, sawBuilding,
                   diskWrites, raised, indexCalls, lastSearch>>
    /\ UNCHANGED <<crewVars, renderVars>>

\* index_documents 53-58: Chroma.from_documents opens the collection of the
\* persist directory (with what is persisted there, if anything), embeds the
\* texts and adds them
FromDocuments(c) ==
    /\ ipc[c] = "split"
    /\ embedCalls' = [embedCalls EXCEPT ![c] = @ + 1]
    /\ diskReads' = [diskReads EXCEPT ![c] = IF disk.exists THEN @ + 1 ELSE @]
    /\ vectorstore' = [vectorstore EXCEPT ![c] = StoreValue(disk.chunks \o texts[c])]
    /\ ipc' = [ipc EXCEPT ![c] = "built"]
    /\ UNCHANGED <<corpus, disk, texts, docReads, startedAfter, sawBuilding,
                   diskWrites, raised, indexCalls, lastSearch>>
    /\ UNCHANGED <<crewVars, renderVars>>

\* what Chroma.from_documents can raise: the embedding call fails, or the
\* vector store rejects an empty list of texts
FromDocumentsErrors(ts) ==
    {"EmbeddingError"} \cup (IF ts = <<>> THEN {"ValueError"} ELSE {})

\* index_documents 53-58: from_documents raises; the exception leaves
\* index_documents, self.vectorstore is not assigned and nothing is written
FromDocumentsRaises(c) ==
    /\ ipc[c] = "split"
    /\ embedCalls' = [embedCalls EXCEPT ![c] = @ + 1]
    /\ \E e \in FromDocumentsErrors(texts[c]) : raised' = [raised EXCEPT ![c] = e]
    /\ ipc' = [ipc EXCEPT ![c] = AfterRaise(c)]
    /\ UNCHANGED <<corpus, disk, texts, vectorstore, docReads, startedAfter, sawBuilding,
                   diskReads, diskWrites, indexCalls, lastSearch>>
    /\ UNCHANGED <<crewVars, renderVars>>

\* index_documents 60: persist() creates the persist directory ...
PersistCreateDirectory(c) ==
    /\ ipc[c] = "built"
    /\ disk' = [disk EXCEPT !.exists = TRUE]
    /\ ipc' = [ipc EXCEPT ![c] = "persisting"]
    /\ UNCHANGED <<corpus, texts, vectorstore, embedCalls, docReads, startedAfter,
                   sawBuilding, diskReads, diskWrites, raised, indexCalls, lastSearch>>
    /\ UNCHANGED <<crewVars, renderVars>>

\* ... and writes the collection into it
PersistWrite(c) ==
    /\ ipc[c] = "persisting"
    /\ disk' = [exists |-> TRUE, chunks |-> vectorstore[c].value]
    /\ diskWrites' = [diskWrites EXCEPT ![c] = @ + 1]
    /\ ipc' = [ipc EXCEPT ![c] = "done"]
    /\ UNCHANGED <<corpus, texts, vectorstore, embedCalls, docReads, startedAfter,
                   sawBuilding, diskReads, raised, indexCalls, lastSearch>>
    /\ UNCHANGED <<crewVars, renderVars>>

\* search(query, k) on a constructed indexer
SearchCall(c) ==
    /\ ipc[c] = "done"
    /\ \E q \in Queries, k \in 1..MaxK :
          lastSearch' = [query |-> q, k |-> k, by |-> c,
                         indexed |-> vectorstore[c].value,
                         result |-> Search(vectorstore[c], q, k)]
    /\ UNCHANGED <<corpus, disk, ipc, texts, vectorstore, embedCalls, docReads,
                   startedAfter, sawBuilding, diskReads, diskWrites, raised, indexCalls>>
    /\ UNCHANGED <<crewVars, renderVars>>

NextIndex ==
    \E c \in Callers :
        \/ InitializeVectorstore(c)
        \/ LoadAndSplit(c)
        \/ LoadRaises(c)
        \/ FromDocuments(c)
        \/ FromDocumentsRaises(c)
        \/ PersistCreateDirectory(c)
        \/ PersistWrite(c)

SpecIndex == InitIndex /\ [][NextIndex]_vars

\* One process: it constructs a DocumentIndexer, then calls index_documents()
\* and search() on it in any order.
Process == "c1"

NextProcess ==
    \/ InitializeVectorstore(Process)
    \/ IndexDocuments(Process)
    \/ LoadAndSplit(Process)
    \/ LoadRaises(Process)
    \/ FromDocuments(Process)
    \/ FromDocumentsRaises(Process)
    \/ PersistCreateDirectory(Process)
    \/ PersistWrite(Process)
    \/ SearchCall(Process)

SpecProcess == InitIndex /\ [][NextProcess]_vars

-----------------------------------------------------------------------------
(* agents/excel_generator.py: create_comprehensive_form.  A workbook is    *)
(* the list of its worksheet names; the Data Entry sheet is the list of    *)
(* what was written to it, each write with its row and columns.            *)

MaxProperties  == 2   \* longest property list passed to the renderer
MaxFormMetrics == 2   \* longest metric list of a subcategory passed to it

PropertyStartCol == 5   \* property_start_col = 5

LongName1 == "Harbour Point Logistics Centre Unit 1"
LongName2 == "Harbour Point Logistics Centre Unit 2"

PropertyNames == {"Tower", "tower", LongName1, LongName2}

\* name[:31] on the names of the model
First31(name) ==
    CASE name = LongName1 -> "Harbour Point Logistics Centre "
      [] name = LongName2 -> "Harbour Point Logistics Centre "
      [] OTHER            -> name

\* str.lower() on the sheet names of the model
LowerSheetName(name) ==
    CASE name = "Overview"         -> "overview"
      [] name = "Metrics Summary"  -> "metrics summary"
      [] name = "Data Entry"       -> "data entry"
      [] name = "Validation Rules" -> "validation rules"
      [] name = "Tower"            -> "tower"
      [] name = "Harbour Point Logistics Centre " -> "harbour point logistics centre "
      [] OTHER                     -> name

\* the property lists create_comprehensive_form can be given
PropertyInfoLists == SeqsUpTo({[name |-> n] : n \in PropertyNames}, MaxProperties)

\* the data types the renderer knows, and one it does not
DataTypes == {"numeric", "integer", "percentage", "currency", "text", "boolean", "date"}

\* metrics with and without a data_type
FormMetrics ==
    {[name |-> "Total Energy Consumption", unit |-> "kWh", data_type |-> t] : t \in DataTypes}
    \cup {[name |-> "Total Energy Consumption", unit |-> "kWh"]}

FormMetricLists == SeqsUpTo(FormMetrics, MaxFormMetrics)

\* taxonomies: empty, of one category, and of two categories one of which
\* has two subcategories
FormTaxonomies ==
    {<<>>}
    \cup {<< [k |-> "Environmental", v |-> << [k |-> "Energy", v |-> ml] >>] >> :
            ml \in FormMetricLists}
    \cup {<< [k |-> "Environmental",
              v |-> << [k |-> "Energy", v |-> ml],
                       [k |-> "Emissions",
                        v |-> << [name |-> "Scope 1 Emissions", unit |-> "tCO2e",
                                  data_type |-> "numeric"] >>] >>],
             [k |-> "Social", v |-> << [k |-> "Employees", v |-> <<>>] >>] >> :
            ml \in FormMetricLists}

\* workbook.add_worksheet(name) raises DuplicateWorksheetName when the
\* workbook has a sheet of that name, letter case apart
AddWorksheetRaises(names, name) ==
    \E i \in 1..Len(names) : LowerSheetName(names[i]) = LowerSheetName(name)

\* _get_input_format
GetInputFormat(data_type) ==
    CASE data_type \in {"numeric", "integer"} -> "input_numeric"
      [] data_type = "percentage"             -> "input_percent"
      [] data_type = "currency"               -> "input_currency"
      [] OTHER                                -> "input_text"

NoValidation == [validate |-> "none"]

\* _add_validation with the integer case left out
AddValidationNumericOnly(data_type) ==
    CASE data_type = "numeric" ->
            [validate |-> "decimal", criteria |-> ">=", value |-> 0]
      [] data_type = "percentage" ->
            [validate |-> "decimal", criteria |-> "between", minimum |-> 0, maximum |-> 100]
      [] data_type = "boolean" ->
            [validate |-> "list", source |-> <<"Yes", "No", "N/A">>]
      [] OTHER -> NoValidation

\* _add_validation: the data validation put on a cell
AddValidation(data_type) ==
    CASE data_type = "numeric" \/ data_type = "integer" ->
            [validate |-> "decimal", criteria |-> ">=", value |-> 0]
      [] data_type = "percentage" ->
            [validate |-> "decimal", criteria |-> "between", minimum |-> 0, maximum |-> 100]
      [] data_type = "boolean" ->
            [validate |-> "list", source |-> <<"Yes", "No", "N/A">>]
      [] OTHER -> NoValidation

\* _create_data_entry_sheet 257-264: the input cells of a metric row
InputCells(row, metric, n) ==
    LET data_type == Get(metric, "data_type", "text")
    IN  [i \in 1..n |->
            [row |-> row, col |-> PropertyStartCol + (i - 1), value |-> "",
             format |-> GetInputFormat(data_type),
             validation |-> AddValidation(data_type)]]

RECURSIVE MetricRows(_, _, _)
\* _create_data_entry_sheet 251-266: the rows of a list of metrics from row on
MetricRows(metrics, row, n) ==
    IF metrics = <<>> THEN <<>>
    ELSE << [row |-> row, kind |-> "metric",
             name |-> Get(Head(metrics), "name", ""),
             description |-> Get(Head(metrics), "description", ""),
             unit |-> Get(Head(metrics), "unit", ""),
             inputs |-> InputCells(row, Head(metrics), n)] >>
         \o MetricRows(Tail(metrics), row + 1, n)

RECURSIVE SubcategoryRows(_, _, _)
\* _create_data_entry_sheet 246-266: a subcategory row, then its metrics
SubcategoryRows(subcategories, row, n) ==
    IF subcategories = <<>> THEN <<>>
    ELSE LET own == << [row |-> row, kind |-> "subcategory",
                        name |-> Head(subcategories).k] >>
                    \o MetricRows(Head(subcategories).v, row + 1, n)
         IN  own \o SubcategoryRows(Tail(subcategories), row + Len(own), n)

RECURSIVE CategoryRows(_, _, _)
\* _create_data_entry_sheet 240-266: a category row, then its subcategories
CategoryRows(categories, row, n) ==
    IF categories = <<>> THEN <<>>
    ELSE LET own == << [row |-> row, kind |-> "category", name |-> Head(categories).k] >>
                    \o SubcategoryRows(Head(categories).v, row + 1, n)
         IN  own \o CategoryRows(Tail(categories), row + Len(own), n)

\* _create_data_entry_sheet: the property headers of row 0 and the rows
\* written from row 1 on
DataEntrySheet(md, props) ==
    [headers |-> [i \in 1..Len(props) |->
                    [col |-> PropertyStartCol + (i - 1), text |-> props[i].name]],
     rows    |-> CategoryRows(md, 1, Len(props))]

\* create_comprehensive_form is called with a taxonomy and a property list
InitRender ==
    /\ rpc = "called"
    /\ metrics_data \in FormTaxonomies
    /\ propertyInfos \in PropertyInfoLists
    /\ worksheets = <<>>
    /\ dataEntry = NoValue
    /\ renderError = "none"
    /\ CrewIdle
    /\ IndexIdle

\* _create_overview_sheet
CreateOverviewSheet ==
    /\ rpc = "called"
    /\ worksheets' = Append(worksheets, "Overview")
    /\ rpc' = "overview"
    /\ UNCHANGED <<metrics_data, propertyInfos, dataEntry, renderError>>
    /\ UNCHANGED <<crewVars, indexVars>>

\* _create_metrics_summary_sheet
CreateMetricsSummarySheet ==
    /\ rpc = "overview"
    /\ worksheets' = Append(worksheets, "Metrics Summary")
    /\ rpc' = "summary"
    /\ UNCHANGED <<metrics_data, propertyInfos, dataEntry, renderError>>
    /\ UNCHANGED <<crewVars, indexVars>>

\* _create_data_entry_sheet
CreateDataEntrySheet ==
    /\ rpc = "summary"
    /\ worksheets' = Append(worksheets, "Data Entry")
    /\ dataEntry' = DataEntrySheet(metrics_data, propertyInfos)
    /\ rpc' = "properties"
    /\ UNCHANGED <<metrics_data, propertyInfos, renderError>>
    /\ UNCHANGED <<crewVars, indexVars>>

\* the property the loop of create_comprehensive_form 33-34 is at: the
\* sheets added after the first three are those of the properties before it
NextProperty == Len(worksheets) - 2

\* _create_property_sheet for the next property of the list
CreatePropertySheet ==
    /\ rpc = "properties"
    /\ NextProperty <= Len(propertyInfos)
    /\ LET sheet_name == First31(propertyInfos[NextProperty].name)
       IN  /\ ~AddWorksheetRaises(worksheets, sheet_name)
           /\ worksheets' = Append(worksheets, sheet_name)
    /\ UNCHANGED <<rpc, metrics_data, propertyInfos, dataEntry, renderError>>
    /\ UNCHANGED <<crewVars, indexVars>>

\* _create_property_sheet: add_worksheet raises, and the exception leaves
\* create_comprehensive_form before workbook.close()
CreatePropertySheetRaises ==
    /\ rpc = "properties"
    /\ NextProperty <= Len(propertyInfos)
    /\ AddWorksheetRaises(worksheets, First31(propertyInfos[NextProperty].name))
    /\ renderError' = "DuplicateWorksheetName"
    /\ rpc' = "raised"
    /\ UNCHANGED <<metrics_data, propertyInfos, worksheets, dataEntry>>
    /\ UNCHANGED <<crewVars, indexVars>>

\* _create_validation_sheet, after the last property
CreateValidationSheet ==
    /\ rpc = "properties"
    /\ NextProperty > Len(propertyInfos)
    /\ worksheets' = Append(worksheets, "Validation Rules")
    /\ rpc' = "validation"
    /\ UNCHANGED <<metrics_data, propertyInfos, dataEntry, renderError>>
    /\ UNCHANGED <<crewVars, indexVars>>

\* workbook.close(): the file is written
CloseWorkbook ==
    /\ rpc = "validation"
    /\ rpc' = "closed"
    /\ UNCHANGED <<metrics_data, propertyInfos, worksheets, dataEntry, renderError>>
    /\ UNCHANGED <<crewVars, indexVars>>

NextRender ==
    \/ CreateOverviewSheet
    \/ CreateMetricsSummarySheet
    \/ CreateDataEntrySheet
    \/ CreatePropertySheet
    \/ CreatePropertySheetRaises
    \/ CreateValidationSheet
    \/ CloseWorkbook

SpecRender == InitRender /\ [][NextRender]_vars

-----------------------------------------------------------------------------
(* Properties of the workflow.                                             *)

\* run() has returned (normally)
RunReturned == returned # NoValue

\* run() has ended, by returning or by raising
RunEnded == RunReturned \/ pc \in {"run_raised", "main_raised"}

\* str.lower() on the metric names of the model
Lower(n) ==
    CASE n = "Scope 1 Emissions"        -> "scope 1 emissions"
      [] n = "Total Energy Consumption" -> "total energy consumption"
      [] n = "Total Employees"          -> "total employees"
      [] n = "Board Diversity"          -> "board diversity"
      [] OTHER                          -> n

\* position of a category in the canonical order
Rank(c) ==
    CASE c = "Environmental" -> 1
      [] c = "Social"        -> 2
      [] c = "Governance"    -> 3

\* C1: whenever the crew's final output is not a mapping, run() still returns
\* a non-empty taxonomy whose top-level keys include Environmental, Social
\* and Governance.
C1_FallbackGuarantee ==
    (RunReturned /\ ~IsDict(crewResult)) =>
        /\ IsDict(returned)
        /\ returned.value # <<>>
        /\ Categories \subseteq KeySet(returned.value)

C1_Witness == pc = "run_returned" /\ ~IsDict(crewResult)

\* C2: an error raised while the consolidation task executes is recovered by
\* run(): it returns normally with the fallback taxonomy and the error does
\* not reach the caller.
C2_ConsolidationErrorRecovered ==
    (RunEnded /\ taskState["consolidation"] = "failed" /\ error = "consolidation_error") =>
        /\ RunReturned
        /\ returned = DictValue(BasicMetricsStructure)

\* C3: unless documents are missing or the generation capability is
\* unreachable, a run that has ended has ended with a usable (non-empty)
\* taxonomy.
C3_EndsWithTaxonomy ==
    (RunEnded /\ error \notin {"no_documents", "transport"}) =>
        /\ RunReturned
        /\ IsDict(returned)
        /\ returned.value # <<>>

\* What the caller of run() has in hand afterwards: the value returned and the
\* crew object, on which run() assigns nothing.
RunObservation == [value |-> returned, crew |-> [investor_name |-> investor_name]]

\* C4: the caller can tell a run that substituted the fallback from one whose
\* consolidation produced the taxonomy.  Every substituting run returns the
\* basic structure and leaves the crew object as it was, so the two are
\* distinguishable exactly if no run whose consolidation produced a mapping
\* leaves the same observation.
C4_FallbackObservable ==
    (RunReturned /\ RunObservation.value = DictValue(BasicMetricsStructure)) =>
        ~IsDict(crewResult)

\* C5: every taxonomy run() returns lists its categories in the order
\* Environmental, Social, Governance.
C5_CategoricalOrdering ==
    RunReturned =>
        \A i, j \in 1..Len(returned.value) :
            i < j => Rank(returned.value[i].k) < Rank(returned.value[j].k)

\* C6: in the taxonomy handed to the spreadsheet renderer, no two metrics of
\* one (category, subcategory) have names equal ignoring case.
C6_NameUniqueness ==
    IsDict(rendered) =>
        \A c \in 1..Len(rendered.value) :
            \A s \in 1..Len(rendered.value[c].v) :
                LET metrics == rendered.value[c].v[s].v
                IN  \A i, j \in 1..Len(metrics) :
                        i # j => Lower(metrics[i].name) # Lower(metrics[j].name)

\* the unit the merge policy gives a regulatory candidate r merged with a
\* framework candidate f: the non-empty one, the regulatory one if both have one
MergedUnit(r, f) == IF r.unit # "" THEN r.unit ELSE f.unit

\* C7: a regulatory and a framework candidate whose names are equal ignoring
\* case come out of consolidation, in the subcategory that holds them, as
\* exactly one metric, with the regulatory casing and the merged unit.
C7_DeduplicationMerge ==
    (pc \in {"kickoff_returned", "run_returned", "main_success"} /\ IsDict(crewResult)) =>
        \A a \in 1..Len(regOut), b \in 1..Len(fwOut) :
            Lower(regOut[a].name) = Lower(fwOut[b].name) =>
                \A c \in 1..Len(crewResult.value) :
                    \A s \in 1..Len(crewResult.value[c].v) :
                        LET metrics == crewResult.value[c].v[s].v
                            hits == {i \in 1..Len(metrics) :
                                        Lower(metrics[i].name) = Lower(regOut[a].name)}
                        IN  hits # {} =>
                                /\ Cardinality(hits) = 1
                                /\ \A i \in hits :
                                      /\ metrics[i].name = regOut[a].name
                                      /\ Get(metrics[i], "unit", "") = MergedUnit(regOut[a], fwOut[b])

\* C8: the consolidation task does not start before both extraction tasks
\* have completed, and the extraction tasks always run in the same order
\* (regulatory, then framework), so no execution differs from another by
\* which of them ran first.
C8_StageOrdering ==
    /\ taskState["consolidation"] # "pending" =>
          /\ taskState["regulatory"] = "done"
          /\ taskState["framework"] = "done"
    /\ taskState["framework"] # "pending" => taskState["regulatory"] = "done"

C8_Witness == taskState["consolidation"] = "running"

\* the failures that are not a consolidation failure: an extraction task
\* found no documents (index build), the generation capability failed under
\* any task, or rendering failed
PropagatingErrors == {"no_documents", "transport", "render_error"}

FallbackShape(d) ==
    /\ Keys(d) = <<"Environmental", "Social", "Governance">>
    /\ \A i \in 1..Len(d) :
          /\ Len(d[i].v) = 1
          /\ Len(d[i].v[1].v) = 1

\* C18: run returns the crew's result unchanged when it is a dict (an empty
\* dict included), and otherwise the fixed fallback, which has one
\* subcategory with one metric under each category and is the same whatever
\* investor_name and properties are.
C18_RunReturnsResultOrFallback ==
    RunReturned =>
        \/ IsDict(crewResult) /\ returned = crewResult
        \/ /\ ~IsDict(crewResult)
           /\ returned = DictValue(BasicMetricsStructure)
           /\ FallbackShape(returned.value)

C18_Witness ==
    /\ RunReturned
    /\ crewResult = DictValue(<<>>)
    /\ returned = DictValue(<<>>)

-----------------------------------------------------------------------------
(* Properties of the indexer.                                              *)

\* C9: when a DocumentIndexer is constructed after another construction on
\* the same persist directory has finished, the later one reads no document
\* and embeds nothing, at most one embedding pass was made by the two, and
\* both handles answer every query and k alike.
C9_IdempotentIndexing ==
    \A a, b \in Callers :
        (a # b /\ ipc[a] = "done" /\ ipc[b] = "done" /\ a \in startedAfter[b]) =>
            /\ embedCalls[b] = 0
            /\ docReads[b] = 0
            /\ embedCalls[a] <= 1
            /\ \A q \in Queries, k \in 1..MaxK :
                  Search(vectorstore[a], q, k) = Search(vectorstore[b], q, k)

C9_Witness ==
    \E a, b \in Callers :
        /\ a # b /\ ipc[a] = "done" /\ ipc[b] = "done" /\ a \in startedAfter[b]
        /\ embedCalls[a] = 1
        /\ Len(vectorstore[b].value) >= 2

\* C10: no caller loads the persist directory while a build of it is in
\* progress (the directory exists, but not all chunks are persisted in it).
C10_NoBuildInProgressObserved == \A c \in Callers : ~sawBuilding[c]

\* C11: in one process, whatever DocumentIndexer operations it performs, the
\* persist directory is read at most once and written at most once, and it
\* is written only by a build that found no persisted copy (so a process
\* that wrote it never read it).
C11_PersistReadWriteOnce ==
    /\ diskReads[Process] <= 1
    /\ diskWrites[Process] <= 1
    /\ diskWrites[Process] >= 1 => diskReads[Process] = 0

\* no document is found in either corpus directory
CorpusEmpty == corpus.regulations = {} /\ corpus.frameworks = {}

\* the build run by the constructor has ended, in a handle or in an exception
ConstructorBuildEnded(c) ==
    /\ indexCalls[c] = 0
    /\ docReads[c] = 1
    /\ ipc[c] \in {"done", "failed"}

\* C12: when both corpus directories are empty, a build ends in
\* IndexBuildError, with no handle and no persisted index.
C12_EmptyCorpusFailsBuild ==
    (CorpusEmpty /\ ConstructorBuildEnded(Process)) =>
        /\ ipc[Process] = "failed"
        /\ raised[Process] = "IndexBuildError"
        /\ vectorstore[Process] = NoValue
        /\ ~disk.exists

\* index_documents has no return statement
IndexDocumentsResult == NoValue

\* some document of the corpus can be read, and some cannot
PartlyParseable(cp) ==
    /\ \E f \in AllFiles(cp) : Parseable(f)
    /\ \E f \in AllFiles(cp) : ~Parseable(f)

\* C13: when some but not all documents cannot be read, the build succeeds
\* with the chunks of exactly the readable documents and reports the number
\* of unreadable ones.
C13_PartialFailureTolerated ==
    (PartlyParseable(corpus) /\ ConstructorBuildEnded(Process)) =>
        /\ ipc[Process] = "done"
        /\ raised[Process] = "none"
        /\ vectorstore[Process] = StoreValue(SourceChunks(corpus))
        /\ IndexDocumentsResult
              = Cardinality({f \in AllFiles(corpus) : ~Parseable(f)})

\* C14: search(query, k) on an index of a corpus of n chunks returns
\* min(k, n) chunks, no chunk twice.
C14_BoundedRetrieval ==
    lastSearch # NoValue =>
        /\ Len(lastSearch.result)
              = Min(lastSearch.k, Cardinality(Range(lastSearch.indexed)))
        /\ Injective(lastSearch.result)

\* every chunk of the corpus occurs once in the store, and no search returns
\* anything else
IndexMatches(vs, chunks) ==
    /\ \A x \in Range(chunks) : Count(vs.value, x) = 1
    /\ \A q \in Queries, k \in 1..MaxK : Range(Search(vs, q, k)) \subseteq Range(chunks)

-----------------------------------------------------------------------------
(* Properties of the renderer.                                             *)

\* create_comprehensive_form has ended, by returning or by raising
RenderEnded == rpc \in {"closed", "raised"}

\* C17: for any taxonomy and any list of n properties the form is produced
\* with the sheets Overview, Metrics Summary, Data Entry, one sheet per
\* property in list order and Validation Rules (n + 4 sheets), and the Data
\* Entry sheet has the n properties as its property columns, in list order.
C17_SheetPerProperty ==
    RenderEnded =>
        LET n == Len(propertyInfos)
        IN  /\ rpc = "closed"
            /\ Len(worksheets) = n + 4
            /\ worksheets
                  = <<"Overview", "Metrics Summary", "Data Entry">>
                    \o [i \in 1..n |-> First31(propertyInfos[i].name)]
                    \o <<"Validation Rules">>
            /\ [i \in 1..n |-> dataEntry.headers[i].text]
                  = [i \in 1..n |-> propertyInfos[i].name]

\* the validation the claim gives each data type
ExpectedValidation(metric) ==
    IF "data_type" \notin DOMAIN metric THEN "none"
    ELSE CASE metric.data_type \in {"numeric", "integer"} -> "decimal >= 0"
           [] metric.data_type = "percentage"             -> "decimal between 0 and 100"
           [] metric.data_type = "boolean"                -> "list Yes, No, N/A"
           [] OTHER                                       -> "none"

\* a validation of the sheet, in the words of ExpectedValidation
Described(validation) ==
    CASE validation = [validate |-> "decimal", criteria |-> ">=", value |-> 0]
            -> "decimal >= 0"
      [] validation = [validate |-> "decimal", criteria |-> "between",
                       minimum |-> 0, maximum |-> 100]
            -> "decimal between 0 and 100"
      [] validation = [validate |-> "list", source |-> <<"Yes", "No", "N/A">>]
            -> "list Yes, No, N/A"
      [] validation = NoValidation -> "none"
      [] OTHER -> "other"

RECURSIVE Flatten(_)
\* the sequences of a sequence, one after the other
Flatten(ss) == IF ss = <<>> THEN <<>> ELSE Head(ss) \o Flatten(Tail(ss))

\* the entries of a taxonomy in iteration order: each category, then each of
\* its subcategories, each followed by its metrics
TaxonomyEntries(md) ==
    Flatten([c \in 1..Len(md) |->
        << [kind |-> "category", name |-> md[c].k] >>
        \o Flatten([sc \in 1..Len(md[c].v) |->
              << [kind |-> "subcategory", name |-> md[c].v[sc].k] >>
              \o [m \in 1..Len(md[c].v[sc].v) |->
                    [kind |-> "metric", metric |-> md[c].v[sc].v[m]]]])])

====
